---- MODULE Spec2Model ----
(***************************************************************************)
(* Dashboard voucher management of django-oscar:                           *)
(*   src/src/oscar/apps/dashboard/vouchers/forms.py  (VoucherForm,         *)
(*                                                    VoucherSetForm)      *)
(*   src/src/oscar/apps/dashboard/vouchers/views.py  (the request handlers)*)
(* The entity store (Voucher, VoucherSet rows, their keys and the          *)
(* uniqueness constraint on Voucher.code), VoucherSet.update_count and     *)
(* get_unused_code live outside these two files and are modelled from the  *)
(* specification's data model (sections 3, 4.2 and 5).                     *)
(***************************************************************************)
EXTENDS Integers, Sequences, FiniteSets, TLC

(***************************************************************************)
(* Bounds of the model.                                                    *)
(***************************************************************************)
MaxVoucherId == 2   \* primary keys handed out to vouchers: 1..MaxVoucherId
MaxSetId == 1       \* primary keys handed out to voucher sets: 1..MaxSetId
MaxCount == 2       \* largest value submitted in the "count" field

(***************************************************************************)
(* Input domains.                                                          *)
(***************************************************************************)
\* the name, the usage and the offers a form is submitted with
Profiles ==
    {[name |-> "n1", usage |-> "Single use", offers |-> {"o1"}],
     [name |-> "n2", usage |-> "Multi-use", offers |-> {"o2"}]}
\* the start and end datetimes a form is submitted with
Ranges ==
    {[start_datetime |-> 1, end_datetime |-> 2],
     [start_datetime |-> 2, end_datetime |-> 1]}
CodeLengths == {1}
\* what a user may type in the "code" field, one character per element
RawCodes == {<<" ", "a">>, <<"A">>, <<" ">>}
GenAlphabet == {"A", "B", "C"}
Workers == {"w1", "w2"}

None == 0           \* a null foreign key / an unsaved instance's pk

(***************************************************************************)
(* Text helpers: str.strip() and str.upper() on the characters used above. *)
(***************************************************************************)
UpperChar(c) ==
    CASE c = "a" -> "A"
      [] c = "b" -> "B"
      [] OTHER -> c

Upper(s) == [i \in 1..Len(s) |-> UpperChar(s[i])]

RECURSIVE LStrip(_)
LStrip(s) == IF s # <<>> /\ Head(s) = " " THEN LStrip(Tail(s)) ELSE s

RECURSIVE RStrip(_)
RStrip(s) ==
    IF s # <<>> /\ s[Len(s)] = " " THEN RStrip(SubSeq(s, 1, Len(s) - 1)) ELSE s

Strip(s) == RStrip(LStrip(s))

\* forms.py:55  self.cleaned_data['code'].strip().upper()
NormaliseCode(raw) == Upper(Strip(raw))

(***************************************************************************)
(* The entity store.  db.vouchers and db.voucher_sets map primary keys to  *)
(* rows; the two counters are the auto-increment keys.                     *)
(***************************************************************************)
VARIABLES db, last, pending

vars == <<db, last, pending>>

EmptyDb ==
    [vouchers |-> <<>>, voucher_sets |-> <<>>,
     next_voucher_id |-> 1, next_set_id |-> 1]

VoucherIds(d) == DOMAIN d.vouchers
SetIds(d) == DOMAIN d.voucher_sets

\* instance.vouchers : the vouchers whose voucher_set is this set
VouchersOf(d, sid) == {v \in VoucherIds(d) : d.vouchers[v].voucher_set = sid}

\* instance.vouchers.count()
Owned(d, sid) == Cardinality(VouchersOf(d, sid))

UsedCodes(d) == {d.vouchers[v].code : v \in VoucherIds(d)}

Put(f, k, row) == [i \in DOMAIN f \cup {k} |-> IF i = k THEN row ELSE f[i]]
Drop(f, ks) == [i \in DOMAIN f \ ks |-> f[i]]

\* Voucher.objects.create(...) followed by voucher.offers.add(*offers); the store
\* refuses a row whose code is already present (unique constraint on code).
CodeConflict(d, code, except) ==
    \E v \in VoucherIds(d) \ {except} : d.vouchers[v].code = code

InsertVoucher(d, row) ==
    [d EXCEPT !.vouchers = Put(d.vouchers, d.next_voucher_id, row),
              !.next_voucher_id = d.next_voucher_id + 1]

\* VoucherSet.update_count(): recompute and persist num_vouchers
UpdateCount(d, sid) ==
    [d EXCEPT !.voucher_sets[sid].num_vouchers = Owned(d, sid)]

\* get_unused_code(length): the codes of that length no voucher uses yet
RECURSIVE CodesOfLength(_)
CodesOfLength(n) ==
    IF n = 0 THEN {<<>>}
    ELSE {Append(s, c) : s \in CodesOfLength(n - 1), c \in GenAlphabet}

UnusedCodes(d, length) == CodesOfLength(length) \ UsedCodes(d)

(***************************************************************************)
(* The record of the request that was handled last: the view, how it ended,*)
(* the set it addressed (for a voucher, the set owning it), the form data  *)
(* that was saved, and the statement of save() at which the store failed.  *)
(***************************************************************************)
NoData == [none |-> TRUE]

Report(op, outcome, set, data, fault) ==
    [op |-> op, outcome |-> outcome, set |-> set, data |-> data,
     fault |-> fault]

NoRequest == Report("none", "none", None, NoData, "none")

Idle == [op |-> "idle"]

(***************************************************************************)
(* VoucherForm (forms.py:16-75).                                           *)
(***************************************************************************)
VoucherFormData ==
    {[name |-> p.name, code |-> c, usage |-> p.usage,
      start_datetime |-> r.start_datetime, end_datetime |-> r.end_datetime,
      offers |-> p.offers] :
        c \in RawCodes, p \in Profiles, r \in Ranges}

\* Voucher.objects.get(field=value): "DoesNotExist", the single row's key, or
\* "MultipleObjectsReturned" when several rows match.
Get(d, matches) ==
    IF matches = {} THEN [result |-> "DoesNotExist", id |-> None]
    ELSE IF Cardinality(matches) = 1
         THEN [result |-> "found", id |-> CHOOSE v \in matches : TRUE]
         ELSE [result |-> "MultipleObjectsReturned", id |-> None]

\* clean_name: the outcome is "ok", a validation error, or the exception that
\* escapes from the lookup.
CleanName(d, voucher, name) ==
    LET got == Get(d, {v \in VoucherIds(d) : d.vouchers[v].name = name})
    IN  IF got.result = "DoesNotExist" THEN "ok"
        ELSE IF got.result = "MultipleObjectsReturned"
             THEN "MultipleObjectsReturned"
             ELSE IF voucher = None \/ got.id # voucher
                  THEN "DuplicateName" ELSE "ok"

\* clean_code, on the normalised code
CleanCode(d, voucher, code) ==
    IF code = <<>> THEN "EmptyCode"
    ELSE LET got == Get(d, {v \in VoucherIds(d) : d.vouchers[v].code = code})
         IN  IF got.result = "DoesNotExist" THEN "ok"
             ELSE IF got.result = "MultipleObjectsReturned"
                  THEN "MultipleObjectsReturned"
                  ELSE IF voucher = None \/ got.id # voucher
                       THEN "DuplicateCode" ELSE "ok"

\* clean: the date range
Clean(data) ==
    IF data.end_datetime < data.start_datetime THEN "InvalidRange" ELSE "ok"

\* form.is_valid(): the fields are cleaned in declaration order (name, code),
\* then clean(); validation errors are collected, any other exception escapes.
IsValid(d, voucher, data) ==
    LET code == NormaliseCode(data.code)
        n == CleanName(d, voucher, data.name)
        c == CleanCode(d, voucher, code)
        r == Clean(data)
        errors == {n, c, r} \ {"ok"}
        cleaned == [data EXCEPT !.code = code]
    IN  IF "MultipleObjectsReturned" \in {n, c}
        THEN [outcome |-> "exception", errors |-> {"MultipleObjectsReturned"},
              cleaned |-> cleaned]
        ELSE IF errors # {}
             THEN [outcome |-> "invalid", errors |-> errors, cleaned |-> cleaned]
             ELSE [outcome |-> "valid", errors |-> {}, cleaned |-> cleaned]

(***************************************************************************)
(* Voucher views (views.py:88-208).                                        *)
(***************************************************************************)
VoucherRow(cleaned, sid) ==
    [name |-> cleaned.name, code |-> cleaned.code, usage |-> cleaned.usage,
     start_datetime |-> cleaned.start_datetime,
     end_datetime |-> cleaned.end_datetime,
     voucher_set |-> sid, offers |-> cleaned.offers]

\* VoucherCreateView.form_valid, in one transaction
CreateFormValid(d, cleaned) ==
    IF CodeConflict(d, cleaned.code, None)
    THEN [outcome |-> "IntegrityError", db |-> d]
    ELSE [outcome |-> "ok", db |-> InsertVoucher(d, VoucherRow(cleaned, None))]

\* VoucherUpdateView.form_valid, in one transaction
UpdateFormValid(d, v, cleaned) ==
    IF CodeConflict(d, cleaned.code, v)
    THEN [outcome |-> "IntegrityError", db |-> d]
    ELSE [outcome |-> "ok",
          db |-> [d EXCEPT !.vouchers[v] =
                     VoucherRow(cleaned, d.vouchers[v].voucher_set)]]

\* a mutant of Dispatch: the edit form is served for members of a set as well
DispatchAlways(d, v) == FALSE

\* VoucherUpdateView.dispatch: TRUE when the request is redirected to the set
Dispatch(d, v) == d.vouchers[v].voucher_set # None

\* a mutant of DeleteVoucher: the owning set is not recounted
DeleteVoucherNoRecount(d, v) == [d EXCEPT !.vouchers = Drop(d.vouchers, {v})]

\* VoucherDeleteView.delete
DeleteVoucher(d, v) ==
    LET sid == d.vouchers[v].voucher_set
        gone == [d EXCEPT !.vouchers = Drop(d.vouchers, {v})]
    IN  IF sid # None THEN UpdateCount(gone, sid) ELSE gone

\* a POST to the create page: validation, then form_valid
HandleVoucherCreate(d, data) ==
    LET f == IsValid(d, None, data)
        r == CreateFormValid(d, f.cleaned)
    IN  IF f.outcome # "valid"
        THEN [db |-> d, outcome |-> f.outcome, errors |-> f.errors]
        ELSE [db |-> r.db, outcome |-> r.outcome, errors |-> {}]

\* a POST to the edit page of voucher v: dispatch, validation, then form_valid
HandleVoucherUpdate(d, v, data) ==
    LET f == IsValid(d, v, data)
        r == UpdateFormValid(d, v, f.cleaned)
    IN  IF Dispatch(d, v)
        THEN [db |-> d, outcome |-> "redirect", errors |-> {}]
        ELSE IF f.outcome # "valid"
             THEN [db |-> d, outcome |-> f.outcome, errors |-> f.errors]
             ELSE [db |-> r.db, outcome |-> r.outcome, errors |-> {}]

VoucherCreate(data) ==
    LET r == HandleVoucherCreate(db, data)
    IN  /\ r.outcome = "ok" => db.next_voucher_id <= MaxVoucherId
        /\ db' = r.db
        /\ last' = Report("VoucherCreate", r.outcome, None,
                          IF r.outcome = "ok" THEN data ELSE NoData, "none")
        /\ UNCHANGED pending

VoucherUpdate(v, data) ==
    LET r == HandleVoucherUpdate(db, v, data)
    IN  /\ db' = r.db
        /\ last' = Report("VoucherUpdate", r.outcome,
                          db.vouchers[v].voucher_set,
                          IF r.outcome = "ok" THEN data ELSE NoData, "none")
        /\ UNCHANGED pending

VoucherDelete(v) ==
    /\ db' = DeleteVoucher(db, v)
    /\ last' = Report("VoucherDelete", "ok", db.vouchers[v].voucher_set,
                      NoData, "none")
    /\ UNCHANGED pending

(***************************************************************************)
(* VoucherSetForm (forms.py:90-150).                                       *)
(***************************************************************************)
VoucherSetFormData ==
    {[name |-> p.name, code_length |-> l,
      start_datetime |-> r.start_datetime, end_datetime |-> r.end_datetime,
      count |-> k, usage |-> p.usage, offers |-> p.offers] :
        l \in CodeLengths, r \in Ranges, k \in 0..MaxCount, p \in Profiles}

\* a mutant of CleanCount: the count may be lowered
CleanCountAnything(d, pk, data) == "ok"

\* clean_count: self.instance is the stored row (pk = None on the create page)
CleanCount(d, pk, data) ==
    IF pk # None /\ data.count < d.voucher_sets[pk].count
    THEN "CountDecrease" ELSE "ok"

\* the key of the instance super().save(commit) returns
InstancePk(d, pk) == IF pk = None THEN d.next_set_id ELSE pk

\* super().save(commit): the Meta.fields are written to the row; a new row gets
\* the next key and num_vouchers 0
SaveInstance(d, pk, data) ==
    IF pk = None
    THEN [d EXCEPT !.voucher_sets =
                      Put(d.voucher_sets, d.next_set_id,
                          [name |-> data.name, code_length |-> data.code_length,
                           start_datetime |-> data.start_datetime,
                           end_datetime |-> data.end_datetime,
                           count |-> data.count, num_vouchers |-> 0]),
                   !.next_set_id = d.next_set_id + 1]
    ELSE [d EXCEPT !.voucher_sets[pk] =
                      [@ EXCEPT !.name = data.name,
                                !.code_length = data.code_length,
                                !.start_datetime = data.start_datetime,
                                !.end_datetime = data.end_datetime,
                                !.count = data.count]]

\* instance.vouchers.update(name=..., usage=..., start_datetime=..., end_datetime=...)
UpdateVouchers(d, sid, usage) ==
    LET inst == d.voucher_sets[sid]
    IN  [d EXCEPT !.vouchers =
            [v \in DOMAIN d.vouchers |->
                IF d.vouchers[v].voucher_set = sid
                THEN [d.vouchers[v] EXCEPT !.name = inst.name,
                                           !.usage = usage,
                                           !.start_datetime = inst.start_datetime,
                                           !.end_datetime = inst.end_datetime]
                ELSE d.vouchers[v]]]

\* a mutant of SetOffers: the offers are added to the ones a voucher has
SetOffersAdds(d, sid, offers) ==
    [d EXCEPT !.vouchers =
        [v \in DOMAIN d.vouchers |->
            IF d.vouchers[v].voucher_set = sid
            THEN [d.vouchers[v] EXCEPT !.offers = @ \cup offers]
            ELSE d.vouchers[v]]]

\* for voucher in instance.vouchers.all(): voucher.offers.set(offers)
SetOffers(d, sid, offers) ==
    [d EXCEPT !.vouchers =
        [v \in DOMAIN d.vouchers |->
            IF d.vouchers[v].voucher_set = sid
            THEN [d.vouchers[v] EXCEPT !.offers = offers]
            ELSE d.vouchers[v]]]

\* the loop body, once per code in codes: Voucher.objects.create(...) and
\* voucher.offers.add(*offers)
RECURSIVE AddVouchers(_, _, _, _, _)
AddVouchers(d, sid, usage, offers, codes) ==
    IF codes = <<>> THEN d
    ELSE LET inst == d.voucher_sets[sid]
             row == [name |-> inst.name, code |-> Head(codes), usage |-> usage,
                     start_datetime |-> inst.start_datetime,
                     end_datetime |-> inst.end_datetime,
                     voucher_set |-> sid, offers |-> offers]
         IN  AddVouchers(InsertVoucher(d, row), sid, usage, offers, Tail(codes))

\* a mutant of Recount: the count is never refreshed
RecountNever(d, sid, vouchers_added) == d

\* if vouchers_added: instance.update_count()
Recount(d, sid, vouchers_added) ==
    IF vouchers_added THEN UpdateCount(d, sid) ELSE d

\* the points of save() at which the store may fail
Faults ==
    {"none", "save_instance", "update_vouchers", "offers_set",
     "get_unused_code", "create_voucher", "update_count"}

\* The store as the writes of save() leave it, up to the statement that fails
\* ("none": to the end).  "get_unused_code" fails in the first pass of the loop,
\* "create_voucher" in its last pass, after get_unused_code returned its code.
SaveWrites(d, pk, data, codes, fault) ==
    LET sid == InstancePk(d, pk)
        d1 == SaveInstance(d, pk, data)
        d2 == UpdateVouchers(d1, sid, data.usage)
        d3 == SetOffers(d2, sid, data.offers)
        d4 == AddVouchers(d3, sid, data.usage, data.offers, codes)
        d5 == Recount(d4, sid, codes # <<>>)
    IN  CASE fault = "save_instance" -> d
          [] fault = "update_vouchers" -> d1
          [] fault = "offers_set" -> d2
          [] fault = "get_unused_code" -> d3
          [] fault = "create_voucher" ->
                AddVouchers(d3, sid, data.usage, data.offers,
                            SubSeq(codes, 1, Len(codes) - 1))
          [] fault = "update_count" -> d4
          [] OTHER -> d5

\* whether save() reaches the statement a fault is injected at, n being the
\* number of passes of the loop
FaultReachable(d, pk, n, fault) ==
    CASE fault = "offers_set" -> pk # None /\ Owned(d, pk) > 0
      [] fault \in {"get_unused_code", "create_voucher", "update_count"} -> n > 0
      [] OTHER -> TRUE

\* a mutant of TransactionAtomic: save() is not wrapped in a transaction
TransactionNone(before, after, failed) == after

\* @transaction.atomic: the writes are committed, or rolled back when the block
\* raises
TransactionAtomic(before, after, failed) == IF failed THEN before ELSE after

\* VoucherSetForm.save
Save(d, pk, data, codes, fault) ==
    TransactionAtomic(d, SaveWrites(d, pk, data, codes, fault), fault # "none")

\* the codes get_unused_code may hand to the passes of the loop: pairwise
\* distinct, none of them in the store
FreshCodes(d, length, n) ==
    {s \in [1..n -> UnusedCodes(d, length)] :
        \A i, j \in 1..n : i # j => s[i] # s[j]}

\* the vouchers the loop of save() will create for this submission
ToCreate(d, pk, data) ==
    LET owned == IF pk = None THEN 0 ELSE Owned(d, pk)
    IN  IF data.count > owned THEN data.count - owned ELSE 0

\* a POST to the create page (pk = None) or to the update page of set pk:
\* validation, then form.save()
HandleVoucherSetForm(d, pk, data, codes, fault) ==
    LET e == CleanCount(d, pk, data)
    IN  IF e # "ok"
        THEN [db |-> d, outcome |-> "invalid", errors |-> {e}]
        ELSE [db |-> Save(d, pk, data, codes, fault),
              outcome |-> IF fault = "none" THEN "ok" ELSE "StoreFailure",
              errors |-> {}]

\* the calls of get_unused_code that have returned when the fault strikes
Generated(n, fault) ==
    IF fault \in {"save_instance", "update_vouchers", "offers_set",
                  "get_unused_code"}
    THEN 0 ELSE n

\* a request to the create page or to the update page of a voucher set, the
\* store failing at one of the statements in faults ("none": at none)
SubmitVoucherSetForm(op, pk, data, faults) ==
    LET n == ToCreate(db, pk, data)
    IN  /\ UNCHANGED pending
        /\ IF CleanCount(db, pk, data) # "ok"
           THEN /\ db' = db
                /\ last' = Report(op, "invalid", pk, NoData, "none")
           ELSE /\ db.next_voucher_id + n - 1 <= MaxVoucherId
                /\ pk = None => db.next_set_id <= MaxSetId
                /\ \E fault \in faults :
                      /\ FaultReachable(db, pk, n, fault)
                      /\ \E codes \in FreshCodes(db, data.code_length,
                                                Generated(n, fault)) :
                            /\ db' = HandleVoucherSetForm(db, pk, data, codes,
                                                          fault).db
                            /\ last' = Report(op,
                                              IF fault = "none" THEN "ok"
                                              ELSE "StoreFailure",
                                              InstancePk(db, pk),
                                              IF fault = "none" THEN data
                                              ELSE NoData,
                                              fault)

VoucherSetCreate(data) ==
    SubmitVoucherSetForm("VoucherSetCreate", None, data, {"none"})

VoucherSetUpdate(pk, data) ==
    SubmitVoucherSetForm("VoucherSetUpdate", pk, data, {"none"})

\* the same requests against a store that may fail
VoucherSetCreateStoreFails(data) ==
    SubmitVoucherSetForm("VoucherSetCreate", None, data, Faults)

VoucherSetUpdateStoreFails(pk, data) ==
    SubmitVoucherSetForm("VoucherSetUpdate", pk, data, Faults)

(***************************************************************************)
(* Requests handled one at a time.                                         *)
(***************************************************************************)
Init ==
    /\ db = EmptyDb
    /\ last = NoRequest
    /\ pending = [w \in Workers |-> Idle]

Next ==
    \/ \E data \in VoucherFormData : VoucherCreate(data)
    \/ \E v \in VoucherIds(db), data \in VoucherFormData : VoucherUpdate(v, data)
    \/ \E v \in VoucherIds(db) : VoucherDelete(v)
    \/ \E data \in VoucherSetFormData : VoucherSetCreate(data)
    \/ \E pk \in SetIds(db), data \in VoucherSetFormData :
          VoucherSetUpdate(pk, data)

Spec == Init /\ [][Next]_vars

(***************************************************************************)
(* Voucher sets saved against a store that may fail in the middle of       *)
(* save().                                                                 *)
(***************************************************************************)
NextStoreFails ==
    \/ \E data \in VoucherFormData : VoucherCreate(data)
    \/ \E v \in VoucherIds(db) : VoucherDelete(v)
    \/ \E data \in VoucherSetFormData : VoucherSetCreateStoreFails(data)
    \/ \E pk \in SetIds(db), data \in VoucherSetFormData :
          VoucherSetUpdateStoreFails(pk, data)

SpecStoreFails == Init /\ [][NextStoreFails]_vars

(***************************************************************************)
(* Requests handled by several workers at once.  A worker validates the    *)
(* form against the store as it is, and writes in a later step: form_valid *)
(* of the voucher views, and for a voucher set the writes of save() with   *)
(* the codes get_unused_code found free when it looked.  The store checks  *)
(* its uniqueness constraint on code when the transaction writes.  Only    *)
(* the transactions are recorded in last.                                  *)
(***************************************************************************)
\* a request goes to an idle worker, to "w1" when both are idle
Accepts(w) ==
    /\ pending[w] = Idle
    /\ w = "w2" => pending["w1"] # Idle

\* is_valid() of a worker: a rejected form is shown again and leaves no trace
ValidateVoucherCreate(w, data) ==
    LET f == IsValid(db, None, data)
    IN  /\ Accepts(w)
        /\ UNCHANGED <<db, last>>
        /\ pending' = IF f.outcome = "valid"
                      THEN [pending EXCEPT ![w] =
                               [op |-> "VoucherCreate", voucher |-> None,
                                cleaned |-> f.cleaned]]
                      ELSE pending

ValidateVoucherUpdate(w, v, data) ==
    LET f == IsValid(db, v, data)
    IN  /\ Accepts(w)
        /\ UNCHANGED <<db, last>>
        /\ pending' = IF ~Dispatch(db, v) /\ f.outcome = "valid"
                      THEN [pending EXCEPT ![w] =
                               [op |-> "VoucherUpdate", voucher |-> v,
                                cleaned |-> f.cleaned]]
                      ELSE pending

ValidateVoucherSetForm(w, pk, data) ==
    /\ Accepts(w)
    /\ UNCHANGED <<db, last>>
    /\ IF CleanCount(db, pk, data) # "ok"
       THEN pending' = pending
       ELSE \E codes \in FreshCodes(db, data.code_length, ToCreate(db, pk, data)) :
               pending' = [pending EXCEPT ![w] =
                              [op |-> "VoucherSetSave", set |-> pk,
                               data |-> data, codes |-> codes]]

\* the transaction of a validated request: its result, or IntegrityError and
\* nothing written when a code it inserts is in the store by now
Commit(d, req) ==
    CASE req.op = "VoucherCreate" -> CreateFormValid(d, req.cleaned)
      [] req.op = "VoucherUpdate" -> UpdateFormValid(d, req.voucher, req.cleaned)
      [] req.op = "VoucherSetSave" ->
            IF \E i \in 1..Len(req.codes) : req.codes[i] \in UsedCodes(d)
            THEN [outcome |-> "IntegrityError", db |-> d]
            ELSE [outcome |-> "ok",
                  db |-> Save(d, req.set, req.data, req.codes, "none")]

FormValid(w) ==
    LET req == pending[w]
        r == Commit(db, req)
    IN  /\ req # Idle
        /\ r.outcome = "ok" =>
              /\ r.db.next_voucher_id <= MaxVoucherId + 1
              /\ r.db.next_set_id <= MaxSetId + 1
        /\ db' = r.db
        /\ pending' = [pending EXCEPT ![w] = Idle]
        /\ last' = Report(req.op, r.outcome, None, NoData, "none")

NextRace ==
    \/ \E w \in Workers, data \in VoucherFormData : ValidateVoucherCreate(w, data)
    \/ \E w \in Workers, v \in VoucherIds(db), data \in VoucherFormData :
          ValidateVoucherUpdate(w, v, data)
    \/ \E w \in Workers, pk \in SetIds(db) \cup {None},
          data \in VoucherSetFormData : ValidateVoucherSetForm(w, pk, data)
    \/ \E w \in Workers : FormValid(w)

SpecRace == Init /\ [][NextRace]_vars

\* the runs of save() without a store failure that a submission can take
CodeRuns(d, pk, data) == FreshCodes(d, data.code_length, ToCreate(d, pk, data))

(***************************************************************************)
(* Updates of voucher sets handled by several workers at once.  The view   *)
(* loads the set and validates the form (clean_count) against the store as *)
(* it is; form.save() runs later, in its own transaction.  Its first       *)
(* statement writes the row of the set, so the transactions on one set run *)
(* one after the other: every read of save() sees what the transactions    *)
(* before it committed.                                                    *)
(***************************************************************************)
\* get_object() and is_valid() of a worker: a rejected form is shown again and
\* leaves no trace
ValidateVoucherSetUpdate(w, pk, data) ==
    /\ Accepts(w)
    /\ UNCHANGED <<db, last>>
    /\ pending' = IF CleanCount(db, pk, data) = "ok"
                  THEN [pending EXCEPT ![w] =
                           [op |-> "VoucherSetUpdate", set |-> pk,
                            data |-> data]]
                  ELSE pending

\* form_valid of a worker: form.save() on the store as it is by now
SaveVoucherSetUpdate(w) ==
    LET req == pending[w]
    IN  /\ req # Idle
        /\ db.next_voucher_id + ToCreate(db, req.set, req.data) - 1
              <= MaxVoucherId
        /\ \E codes \in CodeRuns(db, req.set, req.data) :
              db' = Save(db, req.set, req.data, codes, "none")
        /\ pending' = [pending EXCEPT ![w] = Idle]
        /\ last' = Report("VoucherSetUpdate", "ok", req.set, req.data, "none")

NextSetRace ==
    \/ \E data \in VoucherSetFormData : VoucherSetCreate(data)
    \/ \E w \in Workers, pk \in SetIds(db), data \in VoucherSetFormData :
          ValidateVoucherSetUpdate(w, pk, data)
    \/ \E w \in Workers : SaveVoucherSetUpdate(w)

SpecSetRace == Init /\ [][NextSetRace]_vars

(***************************************************************************)
(* Properties.                                                             *)
(***************************************************************************)
CodesDistinct(d, ids) ==
    \A v, w \in ids : v # w => d.vouchers[v].code # d.vouchers[w].code

\* C1: in every reachable store, an update of a voucher set with count = N,
\* submitted while the set owns M < N vouchers, succeeds and leaves the set
\* owning exactly N vouchers with pairwise distinct codes and num_vouchers = N.
C1_UpdateReachesCount ==
    \A pk \in SetIds(db), data \in VoucherSetFormData :
        Owned(db, pk) < data.count =>
            \A codes \in CodeRuns(db, pk, data) :
                LET r == HandleVoucherSetForm(db, pk, data, codes, "none")
                IN  /\ r.outcome = "ok"
                    /\ Owned(r.db, pk) = data.count
                    /\ CodesDistinct(r.db, VouchersOf(r.db, pk))
                    /\ r.db.voucher_sets[pk].num_vouchers = data.count

\* C2: an update of a voucher set whose count is below the number of vouchers
\* the set owns is rejected with CountDecrease, and the store is left as it
\* was: the set's fields, its vouchers and num_vouchers.
C2_CountDecreaseRejected ==
    \A pk \in SetIds(db), data \in VoucherSetFormData :
        data.count < Owned(db, pk) =>
            \A codes \in CodeRuns(db, pk, data), fault \in Faults :
                LET r == HandleVoucherSetForm(db, pk, data, codes, fault)
                IN  /\ r.outcome = "invalid"
                    /\ r.errors = {"CountDecrease"}
                    /\ r.db = db

\* an update was rejected whose count was below the declared count, which is
\* the number of vouchers the set owns
C2_Witness ==
    /\ last.op = "VoucherSetUpdate"
    /\ last.outcome = "invalid"
    /\ Owned(db, last.set) >= 1
    /\ db.voucher_sets[last.set].count = Owned(db, last.set)

\* C3: after every request, num_vouchers of every voucher set is the number of
\* vouchers the set owns.
C3_RecountInvariant ==
    \A sid \in SetIds(db) : db.voucher_sets[sid].num_vouchers = Owned(db, sid)

\* a voucher of a set was deleted and the set still owns vouchers
C3_Witness ==
    /\ last.op = "VoucherDelete"
    /\ last.set # None
    /\ Owned(db, last.set) >= 1
    /\ db.voucher_sets[last.set].num_vouchers = Owned(db, last.set)

\* C4: validating a name that a voucher with another id carries ends in the
\* DuplicateName validation error, for the create form (editing = None) and
\* for the edit form of any voucher, and in nothing else.
C4_DuplicateNameAlways ==
    \A editing \in VoucherIds(db) \cup {None}, p \in Profiles :
        (\E v \in VoucherIds(db) \ {editing} : db.vouchers[v].name = p.name)
            => CleanName(db, editing, p.name) = "DuplicateName"

\* C5: no two stored vouchers have the same code, whatever the interleaving of
\* the workers; a voucher form whose normalised code another voucher uses
\* fails validation with DuplicateCode, and a validated form whose code was
\* taken in the meantime fails at the store and writes nothing.
C5_CodeUniqueness ==
    /\ CodesDistinct(db, VoucherIds(db))
    /\ \A data \in VoucherFormData,
          editing \in {v \in VoucherIds(db) : ~Dispatch(db, v)} \cup {None} :
          CodeConflict(db, NormaliseCode(data.code), editing) =>
              /\ IsValid(db, editing, data).outcome = "invalid"
              /\ "DuplicateCode" \in IsValid(db, editing, data).errors
    /\ \A w \in Workers :
          (/\ pending[w].op \in {"VoucherCreate", "VoucherUpdate"}
           /\ CodeConflict(db, pending[w].cleaned.code, pending[w].voucher))
              => Commit(db, pending[w]) =
                    [outcome |-> "IntegrityError", db |-> db]

\* C6: every stored voucher has end_datetime >= start_datetime, and no form
\* submitted with end < start is saved, be it a voucher form or a voucher set
\* form.
C6_DateRangeInvariant ==
    /\ \A v \in VoucherIds(db) :
          db.vouchers[v].end_datetime >= db.vouchers[v].start_datetime
    /\ (last.outcome = "ok" /\ last.data # NoData) =>
          last.data.end_datetime >= last.data.start_datetime

\* C7: deleting a voucher removes that voucher and no other; when a set owns
\* it, the set's num_vouchers becomes the number of vouchers it still owns, one
\* less than before, its other fields and every other set stay as they were;
\* when no set owns it, no voucher set changes.
C7_DeleteRecounts ==
    \A v \in VoucherIds(db) :
        LET sid == db.vouchers[v].voucher_set
            d == DeleteVoucher(db, v)
        IN  /\ VoucherIds(d) = VoucherIds(db) \ {v}
            /\ \A w \in VoucherIds(d) : d.vouchers[w] = db.vouchers[w]
            /\ IF sid = None
               THEN d.voucher_sets = db.voucher_sets
               ELSE /\ d.voucher_sets[sid].num_vouchers = Owned(d, sid)
                    /\ d.voucher_sets[sid].num_vouchers =
                          db.voucher_sets[sid].num_vouchers - 1
                    /\ d.voucher_sets =
                          [db.voucher_sets EXCEPT ![sid].num_vouchers = @ - 1]

\* a voucher of a set was deleted: the declared count stands, num_vouchers
\* went down with the vouchers owned
C7_Witness ==
    /\ last.op = "VoucherDelete"
    /\ last.set # None
    /\ db.voucher_sets[last.set].num_vouchers = Owned(db, last.set)
    /\ db.voucher_sets[last.set].count > db.voucher_sets[last.set].num_vouchers

\* C8: a save of a voucher set that fails at any of its statements leaves the
\* store as it was before the request.
C8_SaveAtomic == [][last'.outcome = "StoreFailure" => db' = db]_vars

\* the update of a set that owns vouchers failed in the recount, after every
\* other write of save()
C8_Witness ==
    /\ last.op = "VoucherSetUpdate"
    /\ last.outcome = "StoreFailure"
    /\ last.fault = "update_count"
    /\ Owned(db, last.set) >= 1

\* C9: a successful update of a voucher set leaves every voucher the set owned
\* in the set with its code, with the submitted name, usage, start and end
\* datetimes and exactly the submitted offers; every other voucher is as it
\* was.
C9_UpdateOverwritesMembers ==
    [][(last'.op = "VoucherSetUpdate" /\ last'.outcome = "ok") =>
          \A v \in VoucherIds(db) :
              /\ v \in VoucherIds(db')
              /\ IF db.vouchers[v].voucher_set = last'.set
                 THEN db'.vouchers[v] =
                         [name |-> last'.data.name,
                          code |-> db.vouchers[v].code,
                          usage |-> last'.data.usage,
                          start_datetime |-> last'.data.start_datetime,
                          end_datetime |-> last'.data.end_datetime,
                          voucher_set |-> last'.set,
                          offers |-> last'.data.offers]
                 ELSE db'.vouchers[v] = db.vouchers[v]]_vars

\* a set was updated that owned a voucher before (a voucher outside the set was
\* created after it), and the voucher carries what was submitted
C9_Witness ==
    /\ last.op = "VoucherSetUpdate"
    /\ last.outcome = "ok"
    /\ \E v, w \in VoucherIds(db) :
          /\ v < w
          /\ db.vouchers[v].voucher_set = last.set
          /\ db.vouchers[w].voucher_set = None
          /\ db.vouchers[v].usage = last.data.usage
          /\ db.vouchers[v].usage # db.vouchers[w].usage

\* C10: the vouchers of a voucher set agree on usage and offers and carry the
\* set's name, start and end datetimes; a request to edit a voucher of a set
\* is redirected and changes nothing.
C10_MembersAgree ==
    /\ \A v \in VoucherIds(db) :
          LET sid == db.vouchers[v].voucher_set
          IN  sid # None =>
                /\ db.vouchers[v].name = db.voucher_sets[sid].name
                /\ db.vouchers[v].start_datetime =
                      db.voucher_sets[sid].start_datetime
                /\ db.vouchers[v].end_datetime =
                      db.voucher_sets[sid].end_datetime
                /\ \A w \in VouchersOf(db, sid) :
                      /\ db.vouchers[w].usage = db.vouchers[v].usage
                      /\ db.vouchers[w].offers = db.vouchers[v].offers
    /\ \A v \in VoucherIds(db), data \in VoucherFormData :
          db.vouchers[v].voucher_set # None =>
              HandleVoucherUpdate(db, v, data) =
                  [db |-> db, outcome |-> "redirect", errors |-> {}]

\* the edit of a voucher was redirected to its set, which owns two vouchers
C10_Witness ==
    /\ last.op = "VoucherUpdate"
    /\ last.outcome = "redirect"
    /\ Owned(db, last.set) >= 2

\* C11: whenever every update request of the workers has committed, no voucher
\* set owns more vouchers than its stored count, and num_vouchers of every set
\* is the number of vouchers it owns.
C11_ConcurrentUpdatesAgree ==
    (\A w \in Workers : pending[w] = Idle) =>
        \A sid \in SetIds(db) :
            /\ Owned(db, sid) <= db.voucher_sets[sid].count
            /\ db.voucher_sets[sid].num_vouchers = Owned(db, sid)

====
